---- MODULE Spec2Model ----
(***************************************************************************)
(* Model of the two binary decoders of dumpall:                            *)
(*   - thirdparty/dsstore.py : DataBlock (bounds-checked cursor) and       *)
(*     DS_Store (header, offset table, table of contents, traverse)        *)
(*   - thirdparty/gin.py     : GitIndexParser.parse (lazy record sequence) *)
(* Buffers are sequences of bytes (0..255); every integer field is decoded *)
(* from its bytes.  All 32-bit words of the enumerated inputs stay below   *)
(* 2^31 so that the arithmetic of the model is exact.                      *)
(***************************************************************************)
EXTENDS Integers, Sequences, FiniteSets, TLC

(***************************************************************************)
(* Byte-level helpers                                                      *)
(***************************************************************************)

\* Python's None for an optional argument.
None == -1

Min(a, b) == IF a < b THEN a ELSE b

\* data[lo:hi] for 0 <= lo: Python slicing clips at the end of the buffer.
Slice(data, lo, hi) ==
    SubSeq(data, lo + 1, Min(hi, Len(data)))

\* struct.unpack(">I", b)[0], b of exactly 4 bytes.
UnpackU32(b) == ((b[1] * 256 + b[2]) * 256 + b[3]) * 256 + b[4]

\* struct.unpack(">H", b)[0], b of exactly 2 bytes.
UnpackU16(b) == b[1] * 256 + b[2]

\* struct.pack(">I", n): used to lay out the input buffers.
PackU32(n) ==
    << (n \div 16777216) % 256, (n \div 65536) % 256, (n \div 256) % 256, n % 256 >>

PackU16(n) == << (n \div 256) % 256, n % 256 >>

Zeros(n) == [i \in 1..n |-> 0]

Fill(n, v) == [i \in 1..n |-> v]

RECURSIVE ConcatTo(_, _)
ConcatTo(ss, i) == IF i = 0 THEN << >> ELSE ConcatTo(ss, i - 1) \o ss[i]

\* The concatenation of a sequence of sequences.
Concat(ss) == ConcatTo(ss, Len(ss))

(***************************************************************************)
(* Text decoding.  A decoded string is the sequence of its code points.    *)
(***************************************************************************)

Replacement == 65533

IsCont(b) == b >= 128 /\ b <= 191

\* The range the second byte of a multi-byte UTF-8 sequence must lie in.
SecondOk(b0, b1) ==
    CASE b0 = 224 -> b1 >= 160 /\ b1 <= 191
      [] b0 = 237 -> b1 >= 128 /\ b1 <= 159
      [] b0 = 240 -> b1 >= 144 /\ b1 <= 191
      [] b0 = 244 -> b1 >= 128 /\ b1 <= 143
      [] OTHER    -> IsCont(b1)

\* One step of the UTF-8 decoder at index i (1-based): whether a well-formed
\* sequence starts there, how many bytes the step covers, and the code point.
Utf8Step(b, i) ==
    LET n  == Len(b)
        b0 == b[i]
        need == CASE b0 < 128 -> 1
                  [] b0 >= 194 /\ b0 <= 223 -> 2
                  [] b0 >= 224 /\ b0 <= 239 -> 3
                  [] b0 >= 240 /\ b0 <= 244 -> 4
                  [] OTHER -> 0
    IN  IF need = 0 THEN [ok |-> FALSE, used |-> 1, cp |-> Replacement]
        ELSE IF need = 1 THEN [ok |-> TRUE, used |-> 1, cp |-> b0]
        ELSE IF i + 1 > n \/ ~SecondOk(b0, b[i + 1])
             THEN [ok |-> FALSE, used |-> 1, cp |-> Replacement]
        ELSE IF need = 2
             THEN [ok |-> TRUE, used |-> 2, cp |-> (b0 - 192) * 64 + (b[i + 1] - 128)]
        ELSE IF i + 2 > n \/ ~IsCont(b[i + 2])
             THEN [ok |-> FALSE, used |-> 2, cp |-> Replacement]
        ELSE IF need = 3
             THEN [ok |-> TRUE, used |-> 3,
                   cp |-> ((b0 - 224) * 64 + (b[i + 1] - 128)) * 64 + (b[i + 2] - 128)]
        ELSE IF i + 3 > n \/ ~IsCont(b[i + 3])
             THEN [ok |-> FALSE, used |-> 3, cp |-> Replacement]
        ELSE [ok |-> TRUE, used |-> 4,
              cp |-> (((b0 - 240) * 64 + (b[i + 1] - 128)) * 64 + (b[i + 2] - 128)) * 64
                     + (b[i + 3] - 128)]

RECURSIVE Utf8From(_, _)
\* bytes.decode("utf-8", "replace") from index i on: never fails, every
\* ill-formed subsequence becomes one U+FFFD.
Utf8From(b, i) ==
    IF i > Len(b) THEN << >>
    ELSE LET s == Utf8Step(b, i) IN << s.cp >> \o Utf8From(b, i + s.used)

DecodeUtf8Replace(b) == Utf8From(b, 1)

RECURSIVE Utf8ValidFrom(_, _)
Utf8ValidFrom(b, i) ==
    IF i > Len(b) THEN TRUE
    ELSE LET s == Utf8Step(b, i) IN s.ok /\ Utf8ValidFrom(b, i + s.used)

\* bytes.decode(): strict UTF-8; ok = FALSE stands for UnicodeDecodeError.
DecodeUtf8(b) ==
    IF Utf8ValidFrom(b, 1) THEN [ok |-> TRUE, text |-> Utf8From(b, 1)]
    ELSE [ok |-> FALSE, text |-> << >>]

\* bytes.decode("ascii"): strict.
DecodeAscii(b) ==
    IF \A i \in 1..Len(b) : b[i] < 128 THEN [ok |-> TRUE, text |-> b]
    ELSE [ok |-> FALSE, text |-> << >>]

IsHighSurrogate(u) == u >= 55296 /\ u <= 56319
IsLowSurrogate(u)  == u >= 56320 /\ u <= 57343

Utf16Unit(b, k) == b[2 * k - 1] * 256 + b[2 * k]

RECURSIVE Utf16From(_, _)
\* Code points of the code units k.. of b; a lone surrogate yields << -1 >>
\* as the last element (the decoder's failure).
Utf16From(b, k) ==
    IF 2 * k > Len(b) THEN << >>
    ELSE LET u == Utf16Unit(b, k) IN
         IF IsHighSurrogate(u)
         THEN IF 2 * (k + 1) <= Len(b) /\ IsLowSurrogate(Utf16Unit(b, k + 1))
              THEN << 65536 + (u - 55296) * 1024 + (Utf16Unit(b, k + 1) - 56320) >>
                   \o Utf16From(b, k + 2)
              ELSE << -1 >>
         ELSE IF IsLowSurrogate(u) THEN << -1 >>
         ELSE << u >> \o Utf16From(b, k + 1)

\* bytes.decode("utf-16be") of an even number of bytes: strict.
DecodeUtf16be(b) ==
    LET t == Utf16From(b, 1) IN
    IF t # << >> /\ t[Len(t)] = -1 THEN [ok |-> FALSE, text |-> << >>]
    ELSE [ok |-> TRUE, text |-> t]

\* The strings the decoders compare against, as code points.
StrBool == << 98, 111, 111, 108 >>
StrLong == << 108, 111, 110, 103 >>
StrBlob == << 98, 108, 111, 98 >>
StrUstr == << 117, 115, 116, 114 >>
StrDSDB == << 68, 83, 68, 66 >>
StrDIRC == << 68, 73, 82, 67 >>
StrTREE == << 84, 82, 69, 69 >>

(***************************************************************************)
(* Errors.  dsstore.py raises ParsingError with these messages; the other  *)
(* names are the Python exceptions that can escape the decoders.           *)
(***************************************************************************)

NoError          == "none"
ErrOutOfBounds   == "ParsingError: Requested length exceeds available data size."
ErrShortHeader   == "ParsingError: Data length insufficient for header parsing."
ErrInvalidMagic  == "ParsingError: Invalid magic bytes in header."
ErrHeaderCorrupt == "ParsingError: Header offset mismatch."
ErrInvalidBlock  == "ParsingError: Invalid block ID."
ErrUnicode       == "UnicodeDecodeError"
ErrRecursion     == "RecursionError"
ErrStruct        == "struct.error"
ErrSystemExit    == "SystemExit"
ErrMmapEmpty     == "ValueError: cannot mmap an empty file"

ParsingErrors ==
    { ErrOutOfBounds, ErrShortHeader, ErrInvalidMagic, ErrHeaderCorrupt, ErrInvalidBlock }

(***************************************************************************)
(* DataBlock: a buffer and a read position.                                *)
(* Every operation returns [err, blk, val]: the exception raised (NoError  *)
(* for a normal return), the block afterwards and the value returned.      *)
(***************************************************************************)

DataBlock(bytes) == [data |-> bytes, pos |-> 0]

Ret(e, b, v) == [err |-> e, blk |-> b, val |-> v]

\* offset_read without its bounds check.
offset_read_unchecked(blk, length, offset) ==
    LET offset_position == IF offset = None THEN blk.pos ELSE offset
    IN  Ret(NoError,
            IF offset = None THEN [blk EXCEPT !.pos = blk.pos + length] ELSE blk,
            Slice(blk.data, offset_position, offset_position + length))

\* offset_read that moves the position on every read, also at an absolute offset.
offset_read_moves_on_peek(blk, length, offset) ==
    LET offset_position == IF offset = None THEN blk.pos ELSE offset
    IN  IF Len(blk.data) < offset_position + length
        THEN Ret(ErrOutOfBounds, blk, << >>)
        ELSE Ret(NoError,
                 [blk EXCEPT !.pos = offset_position + length],
                 Slice(blk.data, offset_position, offset_position + length))

\* offset_read: [err, blk, val]; offset = None reads at the position and advances it,
\* an offset reads there and leaves the position alone.
offset_read(blk, length, offset) ==
    LET offset_position == IF offset = None THEN blk.pos ELSE offset
    IN  IF Len(blk.data) < offset_position + length
        THEN Ret(ErrOutOfBounds, blk, << >>)
        ELSE Ret(NoError,
                 IF offset = None THEN [blk EXCEPT !.pos = blk.pos + length] ELSE blk,
                 Slice(blk.data, offset_position, offset_position + length))

skip(blk, length) == [blk EXCEPT !.pos = blk.pos + length]

\* The 32-bit big-endian read that the callers spell struct.unpack(">I", offset_read(4)).
read_u32(blk) ==
    LET r == offset_read(blk, 4, None)
    IN  IF r.err # NoError THEN r ELSE Ret(NoError, r.blk, UnpackU32(r.val))

read_string(blk, length) ==
    LET r == offset_read(blk, length * 2, None)
    IN  IF r.err # NoError THEN r
        ELSE LET d == DecodeUtf16be(r.val)
             IN  IF d.ok THEN Ret(NoError, r.blk, d.text)
                 ELSE Ret(ErrUnicode, r.blk, << >>)

read_structure_type(blk) ==
    LET r == offset_read(blk, 4, None)
    IN  IF r.err # NoError THEN r
        ELSE LET d == DecodeUtf8(r.val)
             IN  IF d.ok THEN Ret(NoError, r.blk, d.text)
                 ELSE Ret(ErrUnicode, r.blk, << >>)

\* _calculate_skip_length with "long" skipped as "bool" is.
calculate_skip_length_long_as_bool(blk, structure_type) ==
    CASE structure_type = StrBool -> Ret(NoError, blk, 1)
      [] structure_type = StrLong -> Ret(NoError, blk, 1)
      [] structure_type = StrBlob -> read_u32(blk)
      [] OTHER -> Ret(NoError, blk, 0)

\* _calculate_skip_length: the number of bytes to skip after the type tag;
\* "blob" reads one more 32-bit length from the block.
calculate_skip_length(blk, structure_type) ==
    CASE structure_type = StrBool -> Ret(NoError, blk, 1)
      [] structure_type = StrLong -> Ret(NoError, blk, 4)
      [] structure_type = StrBlob -> read_u32(blk)
      [] OTHER -> Ret(NoError, blk, 0)

read_filename(blk) ==
    LET r1 == read_u32(blk) IN
    IF r1.err # NoError THEN r1 ELSE
    LET r2 == read_string(r1.blk, r1.val) IN
    IF r2.err # NoError THEN r2 ELSE
    LET r3 == read_u32(r2.blk) IN
    IF r3.err # NoError THEN r3 ELSE
    LET r4 == read_structure_type(r3.blk) IN
    IF r4.err # NoError THEN r4 ELSE
    LET r5 == calculate_skip_length(r4.blk, r4.val) IN
    IF r5.err # NoError THEN r5 ELSE
    Ret(NoError, skip(r5.blk, r5.val), r2.val)

(***************************************************************************)
(* State                                                                   *)
(***************************************************************************)

VARIABLES
    \* a DataBlock driven by arbitrary read / peek / skip operations
    cur,            \* the DataBlock: [data, pos]
    last,           \* the last operation on it and its outcome
    \* DS_Store
    data,           \* self.data, also the buffer of self.block
    blockPos,       \* self.block.pos
    header,         \* self.header: the root-table DataBlock
    offsets,        \* self.offsets
    toc,            \* self.toc: name -> block id
    dsPc,           \* where construction / traversal stands
    dsErr,          \* the exception that ended it (NoError: none)
    raisedAt,       \* the dsPc at which it was raised
    blockId,        \* block_id of the innermost traverse call
    node,           \* node of the innermost traverse call
    nextPointer,    \* next_pointer of the innermost traverse call
    remaining,      \* iterations left of its range(count)
    stack,          \* filenames of every active traverse call, outermost first
    result,         \* what the outermost traverse call returned
    rootId,         \* the block_id the outermost call was given
    layout,         \* the description the buffer was laid out from (not read by the decoder)
    \* GitIndexParser.parse
    f,              \* the mapped file
    fpos,           \* f.tell()
    gitPc,          \* where the generator stands
    gitErr,         \* the exception that ended it (NoError: none)
    out,            \* the records yielded so far
    index,          \* the header record
    entryNo,        \* entries parsed so far (n of range(index["entries"]))
    entry,          \* the entry being parsed, while its name is read byte by byte
    nameList,       \* the list `name` of _read_name
    gitLayout,      \* the description the file was laid out from (not read by the decoder)
    \* Dumper
    url_queue,      \* self.url_queue, oldest first
    processed_urls, \* self.processed_urls
    failed_urls,    \* self.failed_urls
    targets,        \* self.targets
    base_url,       \* base_url of the running iteration of parse_loop
    dumperPc,       \* where start / parse_loop stands
    responses,      \* what the network answers for the .DS_Store of each URL
    fetched,        \* the URLs whose .DS_Store was fetched, in order
    enqueued,       \* the URLs ever put in the queue
    \* one address word of an offset table
    addr,           \* addr of _block_by_id
    resolved,       \* the offset and size it was resolved to
    addrPc          \* "word" -> "resolved"

cursorVars == << cur, last >>
dsVars == << data, blockPos, header, offsets, toc, dsPc, dsErr, raisedAt, blockId, node,
             nextPointer, remaining, stack, result, rootId, layout >>
gitVars == << f, fpos, gitPc, gitErr, out, index, entryNo, entry, nameList, gitLayout >>

dumperVars == << url_queue, processed_urls, failed_urls, targets, base_url, dumperPc,
                 responses, fetched, enqueued >>

addrVars == << addr, resolved, addrPc >>

allVars == << cursorVars, dsVars, gitVars, dumperVars, addrVars >>

(***************************************************************************)
(* DS_Store: construction                                                  *)
(***************************************************************************)

HeaderSize == 36
Magic1 == 1
Magic2 == 1114989617
ReservedSize == 16

\* self.block: the file-level cursor.
block == [data |-> data, pos |-> blockPos]

\* _read_header with the magic compared after the offsets.
read_header_magic_last(blk) ==
    IF Len(blk.data) < HeaderSize THEN Ret(ErrShortHeader, blk, DataBlock(<< >>)) ELSE
    LET r1 == offset_read(blk, 8, None) IN
    IF r1.err # NoError THEN Ret(r1.err, r1.blk, DataBlock(<< >>)) ELSE
    LET magic1 == UnpackU32(SubSeq(r1.val, 1, 4))
        magic2 == UnpackU32(SubSeq(r1.val, 5, 8))
        r2 == offset_read(r1.blk, 12, None) IN
    IF r2.err # NoError THEN Ret(r2.err, r2.blk, DataBlock(<< >>)) ELSE
    LET offset  == UnpackU32(SubSeq(r2.val, 1, 4))
        size    == UnpackU32(SubSeq(r2.val, 5, 8))
        offset2 == UnpackU32(SubSeq(r2.val, 9, 12)) IN
    IF offset # offset2 THEN Ret(ErrHeaderCorrupt, r2.blk, DataBlock(<< >>)) ELSE
    IF magic1 # Magic1 \/ magic2 # Magic2
    THEN Ret(ErrInvalidMagic, r2.blk, DataBlock(<< >>)) ELSE
    LET b3 == skip(r2.blk, ReservedSize)
        r3 == offset_read(b3, size, offset + 4) IN
    IF r3.err # NoError THEN Ret(r3.err, r3.blk, DataBlock(<< >>))
    ELSE Ret(NoError, r3.blk, DataBlock(r3.val))

\* _read_header on the file-level cursor blk: [err, blk, val = root-table DataBlock].
read_header(blk) ==
    IF Len(blk.data) < HeaderSize THEN Ret(ErrShortHeader, blk, DataBlock(<< >>)) ELSE
    LET r1 == offset_read(blk, 8, None) IN
    IF r1.err # NoError THEN Ret(r1.err, r1.blk, DataBlock(<< >>)) ELSE
    LET magic1 == UnpackU32(SubSeq(r1.val, 1, 4))
        magic2 == UnpackU32(SubSeq(r1.val, 5, 8)) IN
    IF magic1 # Magic1 \/ magic2 # Magic2
    THEN Ret(ErrInvalidMagic, r1.blk, DataBlock(<< >>)) ELSE
    LET r2 == offset_read(r1.blk, 12, None) IN
    IF r2.err # NoError THEN Ret(r2.err, r2.blk, DataBlock(<< >>)) ELSE
    LET offset  == UnpackU32(SubSeq(r2.val, 1, 4))
        size    == UnpackU32(SubSeq(r2.val, 5, 8))
        offset2 == UnpackU32(SubSeq(r2.val, 9, 12)) IN
    IF offset # offset2 THEN Ret(ErrHeaderCorrupt, r2.blk, DataBlock(<< >>)) ELSE
    LET b3 == skip(r2.blk, ReservedSize)
        r3 == offset_read(b3, size, offset + 4) IN
    IF r3.err # NoError THEN Ret(r3.err, r3.blk, DataBlock(<< >>))
    ELSE Ret(NoError, r3.blk, DataBlock(r3.val))

RECURSIVE read_words(_, _, _)
\* [struct.unpack(">I", blk.offset_read(4))[0] for _ in range(count)], acc so far.
read_words(blk, count, acc) ==
    IF count = 0 THEN Ret(NoError, blk, acc)
    ELSE LET r == read_u32(blk) IN
         IF r.err # NoError THEN Ret(r.err, r.blk, << >>)
         ELSE read_words(r.blk, count - 1, Append(acc, r.val))

\* _read_offsets on the cursor blk.
read_offsets(blk) ==
    LET r1 == read_u32(blk) IN
    IF r1.err # NoError THEN Ret(r1.err, r1.blk, << >>)
    ELSE read_words(skip(r1.blk, 4), r1.val, << >>)

EmptyToc == [n \in {} |-> 0]

TocPut(t, name, id) == [n \in DOMAIN t \cup {name} |-> IF n = name THEN id ELSE t[n]]

RECURSIVE read_toc_entries(_, _, _)
read_toc_entries(blk, count, acc) ==
    IF count = 0 THEN Ret(NoError, blk, acc) ELSE
    LET r1 == offset_read(blk, 1, None) IN
    IF r1.err # NoError THEN Ret(r1.err, r1.blk, EmptyToc) ELSE
    LET toc_len == r1.val[1]
        r2 == offset_read(r1.blk, toc_len, None) IN
    IF r2.err # NoError THEN Ret(r2.err, r2.blk, EmptyToc) ELSE
    LET d == DecodeUtf8(r2.val) IN
    IF ~d.ok THEN Ret(ErrUnicode, r2.blk, EmptyToc) ELSE
    LET r3 == read_u32(r2.blk) IN
    IF r3.err # NoError THEN Ret(r3.err, r3.blk, EmptyToc)
    ELSE read_toc_entries(r3.blk, count - 1, TocPut(acc, d.text, r3.val))

\* _read_toc on the cursor blk.
read_toc(blk) ==
    LET r1 == read_u32(blk) IN
    IF r1.err # NoError THEN Ret(r1.err, r1.blk, EmptyToc)
    ELSE read_toc_entries(r1.blk, r1.val, EmptyToc)

AddrLowBits == 32

\* offset = addr & ~0x0F
addr_offset_low4(a) == a - (a % 16)

\* offset = addr & ~0x1F
addr_offset(a) == a - (a % AddrLowBits)

\* size = 1 << (addr & 0x1F)
addr_size(a) == 2 ^ (a % AddrLowBits)

\* _block_by_id without the check of the id against the offset table.
block_by_id_no_id_check(offs, blk, block_id) ==
    IF Len(offs) <= block_id THEN Ret(NoError, blk, DataBlock(<< >>)) ELSE
    LET a      == offs[block_id + 1]
        offset == addr_offset(a)
        size   == addr_size(a)
        r      == offset_read(blk, size, offset + 4)
    IN  IF r.err # NoError THEN Ret(r.err, r.blk, DataBlock(<< >>))
        ELSE Ret(NoError, r.blk, DataBlock(r.val))

\* _block_by_id: [err, val = the node's DataBlock]; the parent cursor is only peeked.
block_by_id(offs, blk, block_id) ==
    IF Len(offs) <= block_id THEN Ret(ErrInvalidBlock, blk, DataBlock(<< >>)) ELSE
    LET a      == offs[block_id + 1]
        offset == addr_offset(a)
        size   == addr_size(a)
        r      == offset_read(blk, size, offset + 4)
    IN  IF r.err # NoError THEN Ret(r.err, r.blk, DataBlock(<< >>))
        ELSE Ret(NoError, r.blk, DataBlock(r.val))

(***************************************************************************)
(* Input buffers of the metadata store.  A layout describes a store; its   *)
(* buffer is laid out as the format prescribes: the 36-byte header, the    *)
(* root table (offset table, table of contents), and the blocks, block i   *)
(* at offset BlockOff(i) + 4.  The names a layout holds are known from the *)
(* layout alone, independently of any decoding.                            *)
(***************************************************************************)

MaxBlocks == 3          \* blocks (offset-table entries) of a laid-out store
MaxRecords == 2         \* records of a block: 0..MaxRecords
RecursionLimit == 5     \* stands for the interpreter's recursion limit

BlockBase == 3 * 32     \* offset of block 0; block offsets are multiples of 32
SlotSize == 2 * 32      \* distance between blocks, the largest block size
Overrun == 25 * 8       \* a length field larger than any block

BlockIds == 0..(MaxBlocks - 1)

Malformations ==
    { "none", "blob_overrun_last", "blob_overrun_first", "name_overrun",
      "addr_oob", "tiny_block" }

HeaderFaults == { "ok", "magic1", "magic2", "offset2", "magic_and_offset2", "root_oob" }

\* Forward pointers of the blocks: a path of distinct blocks (only its first may be
\* block 0, as pointer 0 means "none") closed by a terminator: 0 (the chain ends), an
\* id outside the offset table, or a block of the path (a cycle).
Paths ==
    { s \in UNION { [1..k -> BlockIds] : k \in 1..MaxBlocks } :
        /\ \A i, j \in DOMAIN s : i # j => s[i] # s[j]
        /\ \A i \in DOMAIN s : i > 1 => s[i] # 0 }

NextOf(path, term) ==
    [ b \in 1..MaxBlocks |->
        IF \E i \in DOMAIN path : path[i] = b - 1
        THEN LET i == CHOOSE i \in DOMAIN path : path[i] = b - 1
             IN  IF i < Len(path) THEN path[i + 1] ELSE term
        ELSE 0 ]

Shapes ==
    { NextOf(path, term) :
        path \in Paths, term \in { 0, MaxBlocks } \cup (BlockIds \ {0}) }

EndedShapes == { NextOf(path, 0) : path \in Paths }

Layout(next, p, malf, mk, shift, hdr, cut) ==
    [ next |-> next, p |-> p, malf |-> malf, mk |-> mk, shift |-> shift,
      hdr |-> hdr, cut |-> cut ]

Layouts ==
    \* every shape, well-formed records, four record patterns
    { Layout(next, p, "none", 0, 0, "ok", None) : next \in Shapes, p \in 0..3 }
    \cup
    \* one malformed block
    { Layout(next, 1, malf, mk, 0, "ok", None) :
        next \in EndedShapes, malf \in Malformations \ {"none"}, mk \in BlockIds }
    \cup
    \* header faults, displaced root tables and truncated buffers
    { Layout([b \in 1..MaxBlocks |-> 0], 1, "none", 0, shift, hdr, cut) :
        shift \in {0, 4}, hdr \in HeaderFaults, cut \in {None, 0, 7, 20, 35} }

\* Number of records of block i.
LCount(l, i) ==
    LET c == (l.p + i) % (MaxRecords + 1)
    IN  CASE l.mk = i /\ l.malf \in {"blob_overrun_last", "name_overrun"} ->
                IF c = 0 THEN 1 ELSE c
          [] l.mk = i /\ l.malf = "blob_overrun_first" -> 2
          [] OTHER -> c

\* Kind of record j (1-based) of block i: 0 bool, 1 long, 2 blob, 3 a tag the
\* decoder has no entry for, 4 a blob whose length overruns the block, 5 a name
\* whose length overruns the block.
LKind(l, i, j) ==
    CASE l.mk = i /\ l.malf = "blob_overrun_last" /\ j = LCount(l, i) -> 4
      [] l.mk = i /\ l.malf = "blob_overrun_first" /\ j = 1 -> 4
      [] l.mk = i /\ l.malf = "name_overrun" /\ j = LCount(l, i) -> 5
      [] OTHER -> (l.p + i + j) % 4

\* Name of record j of block i, as UTF-16 code units (all outside the surrogates).
LName(l, i, j) ==
    LET u == 256 * j + 64 + 16 * i
    IN  CASE LKind(l, i, j) = 2 -> << >>
          [] LKind(l, i, j) = 3 -> << u, u + 1 >>
          [] OTHER -> << u >>

StrNull == << 110, 117, 108, 108 >>

RECURSIVE PackUnits(_)
PackUnits(us) == IF us = << >> THEN << >> ELSE PackU16(Head(us)) \o PackUnits(Tail(us))

LRecordBytes(l, i, j) ==
    LET k == LKind(l, i, j)
        name == LName(l, i, j)
        head == PackU32(Len(name)) \o PackUnits(name) \o PackU32(16 * i + j)
    IN  CASE k = 0 -> head \o StrBool \o << 1 >>
          [] k = 1 -> head \o StrLong \o PackU32(7)
          [] k = 2 -> head \o StrBlob \o PackU32(2) \o << 170, 187 >>
          [] k = 3 -> head \o StrNull
          [] k = 4 -> head \o StrBlob \o PackU32(Overrun)
          [] OTHER -> PackU32(Overrun)

LBlockBytes(l, i) ==
    PackU32(l.next[i + 1]) \o PackU32(LCount(l, i))
    \o Concat([ j \in 1..LCount(l, i) |-> LRecordBytes(l, i, j) ])

\* log2 of the size of block i: the smallest power of two, at least 8, that holds it.
LBlockLog(l, i) ==
    LET need == Len(LBlockBytes(l, i))
    IN  IF l.mk = i /\ l.malf = "tiny_block" THEN 2
        ELSE CHOOSE k \in 3..6 : 2 ^ k >= need /\ (k = 3 \/ 2 ^ (k - 1) < need)

BlockOff(i) == BlockBase + i * SlotSize

LAddr(l, i) ==
    IF l.mk = i /\ l.malf = "addr_oob"
    THEN BlockOff(MaxBlocks + 1) + LBlockLog(l, i)
    ELSE BlockOff(i) + LBlockLog(l, i)

LAddrs(l) == [ b \in 1..MaxBlocks |-> LAddr(l, b - 1) ]

LToc(l) == [ n \in {StrDSDB} |-> 1 ]

LTable(l) ==
    PackU32(MaxBlocks) \o PackU32(0)
    \o Concat([ b \in 1..MaxBlocks |-> PackU32(LAddr(l, b - 1)) ])
    \o PackU32(1) \o << 4 >> \o StrDSDB \o PackU32(1)

LHeader(l) ==
    LET rootOff == HeaderSize - 4 + l.shift
        size == IF l.hdr = "root_oob" THEN 100 * Overrun ELSE Len(LTable(l))
    IN  PackU32(IF l.hdr = "magic1" THEN Magic1 + 256 ELSE Magic1)
        \o PackU32(IF l.hdr \in {"magic2", "magic_and_offset2"} THEN Magic2 + 1 ELSE Magic2)
        \o PackU32(rootOff) \o PackU32(size)
        \o PackU32(IF l.hdr \in {"offset2", "magic_and_offset2"} THEN rootOff + 32 ELSE rootOff)
        \o Zeros(ReservedSize)

PadTo(bytes, n) == bytes \o Zeros(n - Len(bytes))

Encode(l) ==
    LET full ==
            PadTo(LHeader(l) \o Zeros(l.shift) \o LTable(l), BlockBase + 4)
            \o Concat([ b \in 1..MaxBlocks |-> PadTo(LBlockBytes(l, b - 1), SlotSize) ])
    IN  IF l.cut = None THEN full ELSE SubSeq(full, 1, l.cut)

\* The names of block i, in on-disk order.
LBlockNames(l, i) == [ j \in 1..LCount(l, i) |-> LName(l, i, j) ]

RECURSIVE LChainFrom(_, _, _)
\* The blocks reached from id by forward pointers, at most fuel of them; a chain
\* that leaves the table or does not end within fuel blocks ends with -1.
LChainFrom(l, id, fuel) ==
    IF id >= MaxBlocks \/ fuel = 0 THEN << -1 >>
    ELSE IF l.next[id + 1] = 0 THEN << id >>
    ELSE << id >> \o LChainFrom(l, l.next[id + 1], fuel - 1)

LChain(l, id) == LChainFrom(l, id, MaxBlocks)

\* The chain from id is finite, stays inside the table and every record is well-formed.
LWellFormed(l, id) ==
    /\ l.malf = "none" /\ l.hdr = "ok" /\ l.cut = None
    /\ LChain(l, id)[Len(LChain(l, id))] # -1

LChainNames(l, id) ==
    Concat([ k \in 1..Len(LChain(l, id)) |-> LBlockNames(l, LChain(l, id)[k]) ])

(***************************************************************************)
(* DS_Store: the decoder as a state machine.                               *)
(*   dsPc: "read_header" -> "read_offsets" -> "read_toc" -> "constructed"  *)
(*         -> "enter" <-> "records" -> "return" -> "done", or "raised"     *)
(***************************************************************************)

NoResult == [returned |-> FALSE, names |-> << >>]

NoNode == DataBlock(<< >>)

\* The variables of a decoder that a specification does not run.
CursorIdle ==
    /\ cur = NoNode
    /\ last = << >>

DsIdle ==
    /\ layout = << >>
    /\ data = << >>
    /\ blockPos = 0
    /\ header = NoNode
    /\ offsets = << >>
    /\ toc = EmptyToc
    /\ dsPc = "unused"
    /\ dsErr = NoError
    /\ raisedAt = "none"
    /\ blockId = 0
    /\ node = NoNode
    /\ nextPointer = 0
    /\ remaining = 0
    /\ stack = << >>
    /\ result = NoResult
    /\ rootId = 0

AddrIdle ==
    /\ addr = 0
    /\ resolved = << >>
    /\ addrPc = "unused"

DumperIdle ==
    /\ url_queue = << >>
    /\ processed_urls = { }
    /\ failed_urls = << >>
    /\ targets = << >>
    /\ base_url = << >>
    /\ dumperPc = "unused"
    /\ responses = << >>
    /\ fetched = << >>
    /\ enqueued = { }

GitIdle ==
    /\ gitLayout = << >>
    /\ f = << >>
    /\ fpos = 0
    /\ gitPc = "unused"
    /\ gitErr = NoError
    /\ out = << >>
    /\ index = << >>
    /\ entryNo = 0
    /\ entry = << >>
    /\ nameList = << >>

DsInit ==
    /\ layout \in Layouts
    /\ data = Encode(layout)
    /\ blockPos = 0
    /\ header = NoNode
    /\ offsets = << >>
    /\ toc = EmptyToc
    /\ dsPc = "read_header"
    /\ dsErr = NoError
    /\ raisedAt = "none"
    /\ blockId = 0
    /\ node = NoNode
    /\ nextPointer = 0
    /\ remaining = 0
    /\ stack = << >>
    /\ result = NoResult
    /\ rootId = 0
    /\ CursorIdle
    /\ GitIdle
    /\ DumperIdle
    /\ AddrIdle

\* An exception leaves the decoder: every active call is abandoned, nothing is returned.
Raise(e) ==
    /\ dsErr' = e
    /\ raisedAt' = dsPc
    /\ dsPc' = "raised"
    /\ result' = NoResult
    /\ stack' = << >>

\* The returned names put before the block's own.
JoinFramesReversed(filenames, returned) == returned \o filenames

\* filenames += self.traverse(next_pointer)
JoinFrames(filenames, returned) == filenames \o returned

\* self.header = self._read_header()
ReadHeader ==
    /\ dsPc = "read_header"
    /\ LET r == read_header(block) IN
        /\ blockPos' = r.blk.pos
        /\ IF r.err # NoError
           THEN Raise(r.err) /\ UNCHANGED header
           ELSE /\ header' = r.val
                /\ dsPc' = "read_offsets"
                /\ UNCHANGED << dsErr, raisedAt, result, stack >>
    /\ UNCHANGED << data, offsets, toc, blockId, node, nextPointer, remaining, rootId,
                    layout >>
    /\ UNCHANGED << cursorVars, gitVars, dumperVars, addrVars >>

\* self.offsets = self._read_offsets(): reads from self.block
ReadOffsets ==
    /\ dsPc = "read_offsets"
    /\ LET r == read_offsets(block) IN
        /\ blockPos' = r.blk.pos
        /\ IF r.err # NoError
           THEN Raise(r.err) /\ UNCHANGED offsets
           ELSE /\ offsets' = r.val
                /\ dsPc' = "read_toc"
                /\ UNCHANGED << dsErr, raisedAt, result, stack >>
    /\ UNCHANGED << data, header, toc, blockId, node, nextPointer, remaining, rootId,
                    layout >>
    /\ UNCHANGED << cursorVars, gitVars, dumperVars, addrVars >>

\* self.toc = self._read_toc(): reads from self.block
ReadToc ==
    /\ dsPc = "read_toc"
    /\ LET r == read_toc(block) IN
        /\ blockPos' = r.blk.pos
        /\ IF r.err # NoError
           THEN Raise(r.err) /\ UNCHANGED toc
           ELSE /\ toc' = r.val
                /\ dsPc' = "constructed"
                /\ UNCHANGED << dsErr, raisedAt, result, stack >>
    /\ UNCHANGED << data, header, offsets, blockId, node, nextPointer, remaining, rootId,
                    layout >>
    /\ UNCHANGED << cursorVars, gitVars, dumperVars, addrVars >>

\* The caller's traverse(block_id) on the constructed decoder.
TraverseCall(id) ==
    /\ dsPc = "constructed"
    /\ rootId' = id
    /\ blockId' = id
    /\ dsPc' = "enter"
    /\ UNCHANGED << data, blockPos, header, offsets, toc, dsErr, raisedAt, node, nextPointer,
                    remaining, stack, result, layout >>
    /\ UNCHANGED << cursorVars, gitVars, dumperVars, addrVars >>

\* Entry of traverse(blockId): resolve the block, read forward pointer and count.
TraverseEnter ==
    /\ dsPc = "enter"
    /\ IF Len(stack) >= RecursionLimit
       THEN Raise(ErrRecursion) /\ UNCHANGED << blockPos, node, nextPointer, remaining >>
       ELSE LET r1 == block_by_id(offsets, block, blockId) IN
            /\ blockPos' = r1.blk.pos
            /\ IF r1.err # NoError
               THEN Raise(r1.err) /\ UNCHANGED << node, nextPointer, remaining >>
               ELSE LET r2 == offset_read(r1.val, 8, None) IN
                    IF r2.err # NoError
                    THEN Raise(r2.err) /\ UNCHANGED << node, nextPointer, remaining >>
                    ELSE /\ node' = r2.blk
                         /\ nextPointer' = UnpackU32(SubSeq(r2.val, 1, 4))
                         /\ remaining' = UnpackU32(SubSeq(r2.val, 5, 8))
                         /\ stack' = Append(stack, << >>)
                         /\ dsPc' = "records"
                         /\ UNCHANGED << dsErr, raisedAt, result >>
    /\ UNCHANGED << data, header, offsets, toc, blockId, rootId, layout >>
    /\ UNCHANGED << cursorVars, gitVars, dumperVars, addrVars >>

\* One iteration of [node.read_filename() for _ in range(count)].
ReadFilename ==
    /\ dsPc = "records"
    /\ remaining > 0
    /\ LET r == read_filename(node) IN
        IF r.err # NoError
        THEN Raise(r.err) /\ UNCHANGED << node, remaining >>
        ELSE /\ node' = r.blk
             /\ remaining' = remaining - 1
             /\ stack' = [stack EXCEPT ![Len(stack)] = Append(@, r.val)]
             /\ UNCHANGED << dsErr, raisedAt, dsPc, result >>
    /\ UNCHANGED << data, blockPos, header, offsets, toc, blockId, nextPointer, rootId,
                    layout >>
    /\ UNCHANGED << cursorVars, gitVars, dumperVars, addrVars >>

\* if next_pointer > 0: the recursive call traverse(next_pointer)
TraverseFollow ==
    /\ dsPc = "records"
    /\ remaining = 0
    /\ nextPointer > 0
    /\ blockId' = nextPointer
    /\ dsPc' = "enter"
    /\ UNCHANGED << data, blockPos, header, offsets, toc, dsErr, raisedAt, node, nextPointer,
                    remaining, stack, result, rootId, layout >>
    /\ UNCHANGED << cursorVars, gitVars, dumperVars, addrVars >>

\* next_pointer = 0: the innermost call returns its filenames.
TraverseLast ==
    /\ dsPc = "records"
    /\ remaining = 0
    /\ nextPointer = 0
    /\ dsPc' = "return"
    /\ UNCHANGED << data, blockPos, header, offsets, toc, dsErr, raisedAt, blockId, node,
                    nextPointer, remaining, stack, result, rootId, layout >>
    /\ UNCHANGED << cursorVars, gitVars, dumperVars, addrVars >>

\* return filenames: into the caller's filenames += ..., or out of the outermost call.
TraverseReturn ==
    /\ dsPc = "return"
    /\ IF Len(stack) > 1
       THEN /\ stack' = Append(SubSeq(stack, 1, Len(stack) - 2),
                               JoinFrames(stack[Len(stack) - 1], stack[Len(stack)]))
            /\ UNCHANGED << dsPc, result >>
       ELSE /\ result' = [returned |-> TRUE, names |-> stack[1]]
            /\ stack' = << >>
            /\ dsPc' = "done"
    /\ UNCHANGED << data, blockPos, header, offsets, toc, dsErr, raisedAt, blockId, node,
                    nextPointer, remaining, rootId, layout >>
    /\ UNCHANGED << cursorVars, gitVars, dumperVars, addrVars >>

DsNext ==
    \/ ReadHeader
    \/ ReadOffsets
    \/ ReadToc
    \/ \E id \in 0..MaxBlocks : TraverseCall(id)
    \/ TraverseEnter
    \/ ReadFilename
    \/ TraverseFollow
    \/ TraverseLast
    \/ TraverseReturn

SpecDS == DsInit /\ [][DsNext]_allVars

(***************************************************************************)
(* A DataBlock under arbitrary sequences of its three operations.          *)
(***************************************************************************)

MaxBufLen == 4          \* cursor buffers have 0..MaxBufLen bytes
MaxOpLen == 3           \* lengths and offsets of the operations: 0..MaxOpLen
MaxPos == 8             \* skips keep the position at or below MaxPos

CursorBuffers == { [i \in 1..n |-> 16 * i + 1] : n \in 0..MaxBufLen }

Op(op, n, offset, before, r) ==
    [op |-> op, n |-> n, offset |-> offset, before |-> before, err |-> r.err,
     val |-> r.val]

CursorInit ==
    /\ cur \in { DataBlock(b) : b \in CursorBuffers }
    /\ last = Op("new", 0, None, 0, Ret(NoError, cur, << >>))
    /\ DsIdle
    /\ GitIdle
    /\ DumperIdle
    /\ AddrIdle

\* offset_read(n): the sequential read
CursorRead(n) ==
    /\ LET r == offset_read(cur, n, None) IN
        /\ cur' = r.blk
        /\ last' = Op("read", n, None, cur.pos, r)
    /\ UNCHANGED << dsVars, gitVars, dumperVars, addrVars >>

\* offset_read(n, offset): the read at an absolute offset
CursorPeek(n, offset) ==
    /\ LET r == offset_read(cur, n, offset) IN
        /\ cur' = r.blk
        /\ last' = Op("peek", n, offset, cur.pos, r)
    /\ UNCHANGED << dsVars, gitVars, dumperVars, addrVars >>

\* skip(n)
CursorSkip(n) ==
    /\ cur.pos + n <= MaxPos
    /\ cur' = skip(cur, n)
    /\ last' = Op("skip", n, None, cur.pos, Ret(NoError, cur, << >>))
    /\ UNCHANGED << dsVars, gitVars, dumperVars, addrVars >>

CursorNext ==
    \/ \E n \in 0..MaxOpLen : CursorRead(n)
    \/ \E n \in 0..MaxOpLen, offset \in 0..(MaxBufLen + 1) : CursorPeek(n, offset)
    \/ \E n \in 0..MaxOpLen : CursorSkip(n)

SpecCursor == CursorInit /\ [][CursorNext]_allVars

(***************************************************************************)
(* GitIndexParser: reading the mapped file                                 *)
(***************************************************************************)

NameLenMask == 4095
ChecksumSize == 20

\* f.read(n) on the mapped file: at most n bytes, fewer at the end of the file.
f_read(buf, pos, n) ==
    [val |-> Slice(buf, pos, pos + n), pos |-> Min(pos + n, Len(buf))]

GRet(e, pos, v) == [err |-> e, pos |-> pos, val |-> v]

\* read("I"): struct.unpack fails on fewer than 4 bytes.
read_I(buf, pos) ==
    LET r == f_read(buf, pos, 4)
    IN  IF Len(r.val) < 4 THEN GRet(ErrStruct, r.pos, 0)
        ELSE GRet(NoError, r.pos, UnpackU32(r.val))

\* read("H")
read_H(buf, pos) ==
    LET r == f_read(buf, pos, 2)
    IN  IF Len(r.val) < 2 THEN GRet(ErrStruct, r.pos, 0)
        ELSE GRet(NoError, r.pos, UnpackU16(r.val))

RECURSIVE read_Is(_, _, _, _)
\* k successive read("I"), acc so far.
read_Is(buf, pos, k, acc) ==
    IF k = 0 THEN GRet(NoError, pos, acc)
    ELSE LET r == read_I(buf, pos) IN
         IF r.err # NoError THEN GRet(r.err, r.pos, acc)
         ELSE read_Is(buf, r.pos, k - 1, Append(acc, r.val))

HexDigits(b) ==
    [ i \in 1..(2 * Len(b)) |->
        IF i % 2 = 1 THEN b[(i + 1) \div 2] \div 16 ELSE b[i \div 2] % 16 ]

RECURSIVE OctalDigits(_)
OctalDigits(x) == IF x < 8 THEN << x >> ELSE Append(OctalDigits(x \div 8), x % 8)

\* f"{x:06o}"
Octal6(x) ==
    LET d == OctalDigits(x)
    IN  IF Len(d) >= 6 THEN d ELSE Zeros(6 - Len(d)) \o d

\* The header part of parse, up to its first yield.
parse_header(buf) ==
    IF Len(buf) = 0 THEN GRet(ErrMmapEmpty, 0, << >>) ELSE
    LET r1 == f_read(buf, 0, 4)
        d == DecodeAscii(r1.val) IN
    IF ~d.ok THEN GRet(ErrUnicode, r1.pos, << >>) ELSE
    IF d.text # StrDIRC THEN GRet(ErrSystemExit, r1.pos, << >>) ELSE
    LET r2 == read_I(buf, r1.pos) IN
    IF r2.err # NoError THEN GRet(r2.err, r2.pos, << >>) ELSE
    IF r2.val \notin {2, 3} THEN GRet(ErrSystemExit, r2.pos, << >>) ELSE
    LET r3 == read_I(buf, r2.pos) IN
    IF r3.err # NoError THEN GRet(r3.err, r3.pos, << >>)
    ELSE GRet(NoError, r3.pos,
              [kind |-> "header", signature |-> d.text, version |-> r2.val,
               entries |-> r3.val])

\* _parse_entry up to the flags word; the name is read by _read_name.
parse_entry_fixed(buf, pos, entry_number) ==
    LET r1 == read_Is(buf, pos, 10, << >>) IN
    IF r1.err # NoError THEN GRet(r1.err, r1.pos, << >>) ELSE
    LET r2 == f_read(buf, r1.pos, 20)
        r3 == read_H(buf, r2.pos) IN
    IF r3.err # NoError THEN GRet(r3.err, r3.pos, << >>)
    ELSE GRet(NoError, r3.pos,
              [kind |-> "entry", entry |-> entry_number,
               ctime_seconds |-> r1.val[1], ctime_nanoseconds |-> r1.val[2],
               mtime_seconds |-> r1.val[3], mtime_nanoseconds |-> r1.val[4],
               dev |-> r1.val[5], ino |-> r1.val[6], mode |-> Octal6(r1.val[7]),
               uid |-> r1.val[8], gid |-> r1.val[9], size |-> r1.val[10],
               sha1 |-> HexDigits(r2.val), flags |-> r3.val, name |-> << >>])

\* Entries numbered from 0.
entry_number_of_zero_based(n) == n

\* entry = self._parse_entry(f, read, n + 1)
entry_number_of(n) == n + 1

\* while f.tell() < (len(f) - 20)
extensions_remain(buf, pos) == pos < Len(buf) - ChecksumSize

parse_extension(buf, pos) ==
    LET r1 == f_read(buf, pos, 4)
        d == DecodeAscii(r1.val) IN
    IF ~d.ok THEN GRet(ErrUnicode, r1.pos, << >>) ELSE
    LET r2 == read_I(buf, r1.pos) IN
    IF r2.err # NoError THEN GRet(r2.err, r2.pos, << >>) ELSE
    LET r3 == f_read(buf, r2.pos, r2.val)
    IN  GRet(NoError, r3.pos,
             [kind |-> "extension", signature |-> d.text, size |-> r2.val,
              data |-> DecodeUtf8Replace(r3.val)])

parse_checksum(buf, pos) ==
    LET r == f_read(buf, pos, ChecksumSize)
    IN  GRet(NoError, r.pos, [kind |-> "checksum", checksum |-> TRUE, sha1 |-> HexDigits(r.val)])

(***************************************************************************)
(* Input files of the staging index: header, entries, extensions, checksum *)
(***************************************************************************)

MaxEntries == 2         \* entries of a laid-out index: 0..MaxEntries
MaxExtensions == 2      \* extensions of a laid-out index: 0..MaxExtensions
MaxEmptyReads == 3      \* reads at the end of the file the name loop is followed for

GLayout(sig, version, n, count, p, m, q, cut) ==
    [ sig |-> sig, version |-> version, n |-> n, count |-> count, p |-> p, m |-> m,
      q |-> q, cut |-> cut ]

GitLayouts ==
    { GLayout("DIRC", version, n, n, p, m, q, None) :
        version \in {2, 3}, n \in 0..MaxEntries, p \in 0..4, m \in 0..MaxExtensions,
        q \in 0..3 }
    \cup
    { GLayout(sig, version, 1, count, 1, 1, 0, cut) :
        sig \in {"DIRC", "DIRX", "nonascii"}, version \in {2, 4}, count \in {1, 2},
        cut \in {None, 0, 2, 6, 11, 30, 60, 73, 74, 75} }

\* Kind of the name of entry j (1-based): 0 empty, 1 one byte, 2 two bytes that are
\* not UTF-8, 3 NUL-terminated with name length 0xFFF, 4 name length 0xFFF and no
\* terminator of its own.
GNameKind(g, j) == (g.p + j - 1) % 5

GNameBytes(g, j) ==
    CASE GNameKind(g, j) = 0 -> << >>
      [] GNameKind(g, j) = 1 -> << 96 + j >>
      [] GNameKind(g, j) = 2 -> << 195, 40 >>
      [] GNameKind(g, j) = 3 -> << 120, 48 + j, 0 >>
      [] OTHER -> << 122, 122 >>

\* The name of entry j as the decoder is to report it.
GName(g, j) ==
    CASE GNameKind(g, j) = 0 -> << >>
      [] GNameKind(g, j) = 1 -> << 96 + j >>
      [] GNameKind(g, j) = 2 -> << Replacement, 40 >>
      [] GNameKind(g, j) = 3 -> << 120, 48 + j >>
      [] OTHER -> << 122, 122 >>

GFlags(g, j) ==
    IF GNameKind(g, j) \in {3, 4} THEN 32768 + NameLenMask
    ELSE 32768 * (j % 2) + Len(GNameBytes(g, j))

GEntryBytes(g, j) ==
    Concat([ k \in 1..10 |-> PackU32(IF k = 7 THEN 33188 ELSE 10 * j + k) ])
    \o Fill(20, 16 + j) \o PackU16(GFlags(g, j)) \o GNameBytes(g, j)

\* Kind of extension j: 0 no payload, 1 two bytes, 2 a size 7 larger than the
\* payload, 3 a size larger than the file.
GExtKind(g, j) == (g.q + j - 1) % 4

GExtPayload(g, j) == IF GExtKind(g, j) = 0 THEN << >> ELSE << 195, 100 + j >>

GExtSize(g, j) ==
    CASE GExtKind(g, j) = 2 -> Len(GExtPayload(g, j)) + 7
      [] GExtKind(g, j) = 3 -> Overrun
      [] OTHER -> Len(GExtPayload(g, j))

GExtBytes(g, j) == StrTREE \o PackU32(GExtSize(g, j)) \o GExtPayload(g, j)

GChecksum == Fill(ChecksumSize, 107)

GSignature(g) ==
    CASE g.sig = "DIRC" -> StrDIRC
      [] g.sig = "DIRX" -> << 68, 73, 82, 88 >>
      [] OTHER -> << 68, 73, 82, 200 >>

GEncode(g) ==
    LET full ==
            GSignature(g) \o PackU32(g.version) \o PackU32(g.count)
            \o Concat([ j \in 1..g.n |-> GEntryBytes(g, j) ])
            \o Concat([ j \in 1..g.m |-> GExtBytes(g, j) ])
            \o GChecksum
    IN  IF g.cut = None THEN full ELSE SubSeq(full, 1, Min(g.cut, Len(full)))

\* Every field of the file says what the file holds.
GWellFormed(g) ==
    /\ g.sig = "DIRC" /\ g.version \in {2, 3} /\ g.count = g.n /\ g.cut = None
    /\ \A j \in 1..g.n : GNameKind(g, j) # 4
    /\ \A j \in 1..g.m : GExtKind(g, j) \in {0, 1}

(***************************************************************************)
(* GitIndexParser.parse: the generator as a state machine; every action    *)
(* runs it to its next yield.                                              *)
(*   gitPc: "start" -> "body" (<-> "read_name") -> "checksum" -> "done",   *)
(*          or "raised"                                                    *)
(***************************************************************************)

GitInit ==
    /\ gitLayout \in GitLayouts
    /\ f = GEncode(gitLayout)
    /\ fpos = 0
    /\ gitPc = "start"
    /\ gitErr = NoError
    /\ out = << >>
    /\ index = << >>
    /\ entryNo = 0
    /\ entry = << >>
    /\ nameList = << >>
    /\ CursorIdle
    /\ DsIdle
    /\ DumperIdle
    /\ AddrIdle

GitRaise(e) ==
    /\ gitErr' = e
    /\ gitPc' = "raised"

\* open, mmap, header, yield index
ParseHeader ==
    /\ gitPc = "start"
    /\ LET r == parse_header(f) IN
        /\ fpos' = r.pos
        /\ IF r.err # NoError
           THEN GitRaise(r.err) /\ UNCHANGED << out, index >>
           ELSE /\ index' = r.val
                /\ out' = Append(out, r.val)
                /\ gitPc' = "body"
                /\ UNCHANGED gitErr
    /\ UNCHANGED << f, entryNo, entry, nameList, gitLayout >>
    /\ UNCHANGED << cursorVars, dsVars, dumperVars, addrVars >>

\* One iteration of for n in range(index["entries"]), up to its yield or, when the
\* name length is 0xFFF, up to the byte-by-byte loop of _read_name.
ParseEntry ==
    /\ gitPc = "body"
    /\ entryNo < index.entries
    /\ LET r == parse_entry_fixed(f, fpos, entry_number_of(entryNo)) IN
        IF r.err # NoError
        THEN /\ GitRaise(r.err)
             /\ fpos' = r.pos
             /\ UNCHANGED << out, entryNo, entry, nameList >>
        ELSE LET namelen == r.val.flags % (NameLenMask + 1) IN
             IF namelen < NameLenMask
             THEN LET rn == f_read(f, r.pos, namelen) IN
                  /\ fpos' = rn.pos
                  /\ out' = Append(out, [r.val EXCEPT !.name = DecodeUtf8Replace(rn.val)])
                  /\ entryNo' = entryNo + 1
                  /\ UNCHANGED << gitPc, gitErr, entry, nameList >>
             ELSE /\ fpos' = r.pos
                  /\ entry' = r.val
                  /\ nameList' = << >>
                  /\ gitPc' = "read_name"
                  /\ UNCHANGED << gitErr, out, entryNo >>
    /\ UNCHANGED << f, index, gitLayout >>
    /\ UNCHANGED << cursorVars, dsVars, dumperVars, addrVars >>

EmptyReads == Cardinality({ i \in DOMAIN nameList : nameList[i] = << >> })

\* One iteration of while (byte := f.read(1)) != b"\x00": name.append(byte);
\* on the zero byte, the rest of _read_name and of the entry, up to its yield.
ReadNameByte ==
    /\ gitPc = "read_name"
    /\ EmptyReads < MaxEmptyReads
    /\ LET r == f_read(f, fpos, 1) IN
        /\ fpos' = r.pos
        /\ IF r.val = << 0 >>
           THEN /\ out' = Append(out,
                            [entry EXCEPT !.name = DecodeUtf8Replace(Concat(nameList))])
                /\ entryNo' = entryNo + 1
                /\ entry' = << >>
                /\ nameList' = << >>
                /\ gitPc' = "body"
           ELSE /\ nameList' = Append(nameList, r.val)
                /\ UNCHANGED << out, entryNo, entry, gitPc >>
    /\ UNCHANGED << f, gitErr, index, gitLayout >>
    /\ UNCHANGED << cursorVars, dsVars, dumperVars, addrVars >>

\* One iteration of the extension loop, up to its yield.
ParseExtension ==
    /\ gitPc = "body"
    /\ entryNo >= index.entries
    /\ extensions_remain(f, fpos)
    /\ LET r == parse_extension(f, fpos) IN
        /\ fpos' = r.pos
        /\ IF r.err # NoError
           THEN GitRaise(r.err) /\ UNCHANGED out
           ELSE out' = Append(out, r.val) /\ UNCHANGED << gitPc, gitErr >>
    /\ UNCHANGED << f, index, entryNo, entry, nameList, gitLayout >>
    /\ UNCHANGED << cursorVars, dsVars, dumperVars, addrVars >>

\* The extension loop ends: checksum = self._parse_checksum(f); yield checksum
ParseChecksum ==
    /\ gitPc = "body"
    /\ entryNo >= index.entries
    /\ ~extensions_remain(f, fpos)
    /\ LET r == parse_checksum(f, fpos) IN
        /\ fpos' = r.pos
        /\ out' = Append(out, r.val)
    /\ gitPc' = "checksum"
    /\ UNCHANGED << f, gitErr, index, entryNo, entry, nameList, gitLayout >>
    /\ UNCHANGED << cursorVars, dsVars, dumperVars, addrVars >>

\* Resumed after the checksum, the generator ends.
ParseEnd ==
    /\ gitPc = "checksum"
    /\ gitPc' = "done"
    /\ UNCHANGED << f, fpos, gitErr, out, index, entryNo, entry, nameList, gitLayout >>
    /\ UNCHANGED << cursorVars, dsVars, dumperVars, addrVars >>

GitNext ==
    \/ ParseHeader
    \/ ParseEntry
    \/ ReadNameByte
    \/ ParseExtension
    \/ ParseChecksum
    \/ ParseEnd

SpecGit == GitInit /\ [][GitNext]_allVars

(***************************************************************************)
(* Dumper: start and parse_loop.  A URL is its path below the host, a      *)
(* sequence of names; the answer of the network to the request for the     *)
(* .DS_Store of a URL is given by responses.                               *)
(*   dumperPc: "start" -> "loop" (-> "fetch" -> "parse" -> "loop")         *)
(*             -> "returned"                                               *)
(***************************************************************************)

MaxQueue == 3           \* URLs put in the queue before parse_loop runs: 0..MaxQueue

StatusOk == 200

ErrAttribute == "AttributeError"

\* The stores the network may hold: 1 one block with records, 2 a chain of two
\* blocks, 3 a store with a wrong magic, 4 a store with its root table at byte 40.
StoreLayout(k) ==
    CASE k = 1 -> Layout([b \in 1..MaxBlocks |-> 0], 1, "none", 0, 0, "ok", None)
      [] k = 2 -> Layout([b \in 1..MaxBlocks |-> IF b = 2 THEN 2 ELSE 0], 0, "none", 0, 0,
                         "ok", None)
      [] k = 3 -> Layout([b \in 1..MaxBlocks |-> 0], 1, "none", 0, 0, "magic1", None)
      [] OTHER -> Layout([b \in 1..MaxBlocks |-> 0], 1, "none", 0, 4, "ok", None)

Response(status, none, content, store) ==
    [ status |-> status, none |-> none, content |-> content, store |-> store ]

\* What fetch may return: the (200, b"") of its body as written, the (0, None) of its
\* except branch, and what the request it stands for returns: an error page, a store.
Responses ==
    { Response(StatusOk, FALSE, << >>, 0),
      Response(0, TRUE, << >>, 0),
      Response(404, FALSE, << 60, 104, 62 >>, 0),
      Response(StatusOk, FALSE, << 0, 0, 0, 1 >>, 0) }
    \cup { Response(StatusOk, FALSE, Encode(StoreLayout(k)), k) : k \in 1..4 }

SeedUrls == { << >>, << << 65 >> >>, << << 66 >> >> }

\* status, content = await self.fetch(base_url + "/.DS_Store")
fetch(url) == responses[url]

\* not ds_data
Falsy(r) == r.none \/ r.content = << >>

\* ds = dsstore.DS_Store(ds_data): [err, offsets, toc]
DS_Store(bytes) ==
    LET r1 == read_header(DataBlock(bytes)) IN
    IF r1.err # NoError THEN [err |-> r1.err, offsets |-> << >>, toc |-> EmptyToc] ELSE
    LET r2 == read_offsets(r1.blk) IN
    IF r2.err # NoError THEN [err |-> r2.err, offsets |-> << >>, toc |-> EmptyToc] ELSE
    LET r3 == read_toc(r2.blk) IN
    IF r3.err # NoError THEN [err |-> r3.err, offsets |-> r2.val, toc |-> EmptyToc]
    ELSE [err |-> NoError, offsets |-> r2.val, toc |-> r3.val]

\* ds.traverse_root(): DS_Store has no attribute of that name.
traverse_root(ds) == [err |-> ErrAttribute, names |-> << >>]

\* f"{base_url}/{filename}"
new_url_of(base, filename) == Append(base, filename)

\* urlparse(new_url).path.lstrip("/")
fullname_of(url) == url

\* The failure is logged and forgotten.
record_failure_dropped(failed, url) == failed

\* self.failed_urls.append(base_url)
record_failure(failed, url) == Append(failed, url)

\* The orders in which the elements of a set may be iterated.
Orderings(S) ==
    { o \in [1..Cardinality(S) -> S] : \A i, j \in DOMAIN o : i # j => o[i] # o[j] }

RECURSIVE visit_names(_, _, _, _, _)
\* The body of for filename in ...: the names in iteration order o from index i on;
\* [queue, targets] so far.
visit_names(base, o, i, queue, tgts) ==
    IF i > Len(o) THEN [queue |-> queue, targets |-> tgts]
    ELSE LET new_url == new_url_of(base, o[i]) IN
         visit_names(base, o, i + 1,
                     IF new_url \notin processed_urls THEN Append(queue, new_url)
                     ELSE queue,
                     Append(tgts, << new_url, fullname_of(new_url) >>))

DumperInit ==
    /\ responses \in [SeedUrls -> Responses]
    /\ url_queue = << >>
    /\ processed_urls = { }
    /\ failed_urls = << >>
    /\ targets = << >>
    /\ base_url = << >>
    /\ dumperPc = "start"
    /\ fetched = << >>
    /\ enqueued = { }
    /\ CursorIdle
    /\ DsIdle
    /\ GitIdle
    /\ AddrIdle

\* await self.url_queue.put(...) before parse_loop runs: start puts self.base_url;
\* the queue parse_loop finds may hold any URLs, a URL more than once.
Put(url) ==
    /\ dumperPc = "start"
    /\ Len(url_queue) < MaxQueue
    /\ url_queue' = Append(url_queue, url)
    /\ enqueued' = enqueued \cup { url }
    /\ UNCHANGED << processed_urls, failed_urls, targets, base_url, dumperPc, responses,
                    fetched >>
    /\ UNCHANGED << cursorVars, dsVars, gitVars, addrVars >>

\* await self.parse_loop()
ParseLoopCall ==
    /\ dumperPc = "start"
    /\ dumperPc' = "loop"
    /\ UNCHANGED << url_queue, processed_urls, failed_urls, targets, base_url, responses,
                    fetched, enqueued >>
    /\ UNCHANGED << cursorVars, dsVars, gitVars, addrVars >>

\* The test that never finds a URL among the processed ones.
already_processed_never(url, processed) == FALSE

\* if base_url in self.processed_urls: continue
already_processed(url, processed) == url \in processed

\* while not self.url_queue.empty(): get; a processed URL is passed over.
Dequeue ==
    /\ dumperPc = "loop"
    /\ url_queue # << >>
    /\ base_url' = Head(url_queue)
    /\ url_queue' = Tail(url_queue)
    /\ IF already_processed(Head(url_queue), processed_urls)
       THEN UNCHANGED << processed_urls, dumperPc >>
       ELSE /\ processed_urls' = processed_urls \cup { Head(url_queue) }
            /\ dumperPc' = "fetch"
    /\ UNCHANGED << failed_urls, targets, responses, fetched, enqueued >>
    /\ UNCHANGED << cursorVars, dsVars, gitVars, addrVars >>

\* The fetch and the test of what it returned.
Fetch ==
    /\ dumperPc = "fetch"
    /\ fetched' = Append(fetched, base_url)
    /\ IF fetch(base_url).status # StatusOk \/ Falsy(fetch(base_url))
       THEN /\ failed_urls' = record_failure(failed_urls, base_url)
            /\ dumperPc' = "loop"
       ELSE /\ dumperPc' = "parse"
            /\ UNCHANGED failed_urls
    /\ UNCHANGED << url_queue, processed_urls, targets, base_url, responses, enqueued >>
    /\ UNCHANGED << cursorVars, dsVars, gitVars, addrVars >>

\* The try block: any Exception of the decoder is caught and the URL recorded.
ParseStore ==
    /\ dumperPc = "parse"
    /\ LET ds == DS_Store(fetch(base_url).content)
           tr == traverse_root(ds)
       IN  IF ds.err # NoError \/ tr.err # NoError
           THEN /\ failed_urls' = record_failure(failed_urls, base_url)
                /\ UNCHANGED << url_queue, targets, enqueued >>
           ELSE /\ \E o \in Orderings({ tr.names[i] : i \in DOMAIN tr.names }) :
                     LET v == visit_names(base_url, o, 1, url_queue, targets) IN
                     /\ url_queue' = v.queue
                     /\ targets' = v.targets
                     /\ enqueued' = enqueued \cup { v.queue[i] : i \in DOMAIN v.queue }
                /\ UNCHANGED failed_urls
    /\ dumperPc' = "loop"
    /\ UNCHANGED << processed_urls, base_url, responses, fetched >>
    /\ UNCHANGED << cursorVars, dsVars, gitVars, addrVars >>

\* The queue is empty: parse_loop returns.
ParseLoopReturn ==
    /\ dumperPc = "loop"
    /\ url_queue = << >>
    /\ dumperPc' = "returned"
    /\ UNCHANGED << url_queue, processed_urls, failed_urls, targets, base_url, responses,
                    fetched, enqueued >>
    /\ UNCHANGED << cursorVars, dsVars, gitVars, addrVars >>

DumperNext ==
    \/ \E url \in SeedUrls : Put(url)
    \/ ParseLoopCall
    \/ Dequeue
    \/ Fetch
    \/ ParseStore
    \/ ParseLoopReturn

SpecDumper == DumperInit /\ [][DumperNext]_allVars

(***************************************************************************)
(* The address words of the offset table, resolved as _block_by_id does.   *)
(***************************************************************************)

MaxAddrSlot == 3        \* offsets of the address words: 32 * (0..MaxAddrSlot), and the top

\* Words of every low-bits value whose block size 1 << n a 32-bit signed integer
\* holds, at small offsets and at the largest offset below 2^31.
AddrWords ==
    { AddrLowBits * k + n : k \in 0..MaxAddrSlot, n \in 0..30 }
    \cup { (2147483647 - 31) + n : n \in 0..30 }

AddrInit ==
    /\ addr \in AddrWords
    /\ resolved = << >>
    /\ addrPc = "word"
    /\ CursorIdle
    /\ DsIdle
    /\ GitIdle
    /\ DumperIdle

\* offset = addr & ~0x1F; size = 1 << (addr & 0x1F)
ResolveAddr ==
    /\ addrPc = "word"
    /\ resolved' = [offset |-> addr_offset(addr), size |-> addr_size(addr)]
    /\ addrPc' = "resolved"
    /\ UNCHANGED addr
    /\ UNCHANGED << cursorVars, dsVars, gitVars, dumperVars >>

AddrNext == ResolveAddr

SpecAddr == AddrInit /\ [][AddrNext]_allVars

(***************************************************************************)
(* Claims about the metadata-store decoder (SpecDS) and the cursor         *)
(* (SpecCursor)                                                            *)
(***************************************************************************)

TraversalPcs == { "enter", "records", "return", "done" }

RaisedInTraversal == dsPc = "raised" /\ raisedAt \in TraversalPcs

\* The decoder holds the offset table the buffer was laid out with.
HoldsLayoutTable == offsets = LAddrs(layout)

C2_TraverseEndsInListOrParsingError ==
    /\ dsPc = "done" => result.returned
    /\ RaisedInTraversal => dsErr \in ParsingErrors

\* C7 (as claimed): a filename record whose blob length, trailing skip or name length
\* exceeds the bytes remaining in its block makes traverse raise the parsing error
\* instead of returning, also when it is the last record of its block.
C7_OverrunRaisesParsingError ==
    ( /\ HoldsLayoutTable
      /\ layout.malf \in { "blob_overrun_last", "blob_overrun_first", "name_overrun" }
      /\ \E k \in DOMAIN LChain(layout, rootId) : LChain(layout, rootId)[k] = layout.mk )
    => /\ dsPc # "done"
       /\ RaisedInTraversal => dsErr = ErrOutOfBounds

\* C8 (as claimed): the offset table and the table of contents are read from the
\* root-table buffer (self.header), starting at its position 0.
C8_TablesReadFromRootBuffer ==
    dsPc = "constructed" =>
        LET ro == read_offsets(DataBlock(header.data))
            rt == read_toc(ro.blk)
        IN  /\ ro.err = NoError /\ offsets = ro.val
            /\ rt.err = NoError /\ toc = rt.val

HeaderWord(k) == UnpackU32(SubSeq(data, 4 * k + 1, 4 * k + 4))

MagicOk == HeaderWord(0) = Magic1 /\ HeaderWord(1) = Magic2

HeaderRead == dsPc # "read_header"

HeaderFailed == dsPc = "raised" /\ raisedAt = "read_header"

\* C9 (as claimed): for every buffer, a wrong magic word gives the invalid-magic
\* error; otherwise differing root offsets give the header-corrupt error; otherwise
\* the header parses without error.
C9_HeaderValidationEveryBuffer ==
    (HeaderRead /\ Len(data) >= 8) =>
        IF ~MagicOk THEN HeaderFailed /\ dsErr = ErrInvalidMagic
        ELSE IF Len(data) >= 20 /\ HeaderWord(2) # HeaderWord(4)
             THEN HeaderFailed /\ dsErr = ErrHeaderCorrupt
        ELSE Len(data) >= 20 => ~HeaderFailed

\* C9 (amended): a buffer shorter than 36 bytes fails with the data-length error; for
\* a buffer of at least 36 bytes a wrong magic word gives the invalid-magic error,
\* otherwise differing root offsets give the header-corrupt error, otherwise
\* _read_header returns the root-size bytes at root-offset + 4, or fails out of bounds
\* when they do not lie inside the buffer.
C9_HeaderValidation ==
    HeaderRead =>
        IF Len(data) < HeaderSize THEN HeaderFailed /\ dsErr = ErrShortHeader
        ELSE IF ~MagicOk THEN HeaderFailed /\ dsErr = ErrInvalidMagic
        ELSE IF HeaderWord(2) # HeaderWord(4) THEN HeaderFailed /\ dsErr = ErrHeaderCorrupt
        ELSE IF HeaderWord(2) + 4 + HeaderWord(3) > Len(data)
             THEN HeaderFailed /\ dsErr = ErrOutOfBounds
        ELSE /\ ~HeaderFailed
             /\ header = DataBlock(SubSeq(data, HeaderWord(2) + 5,
                                          HeaderWord(2) + 4 + HeaderWord(3)))

\* C9 witness: a full-length header with a wrong magic word and differing root
\* offsets has been rejected.
C9_Witness ==
    /\ HeaderFailed
    /\ Len(data) >= HeaderSize
    /\ ~MagicOk
    /\ HeaderWord(2) # HeaderWord(4)

BlockAddr == offsets[blockId + 1]

\* C10: a call for a block id outside the offset table raises the invalid-block-id
\* error and only that; a traverse that raises returns nothing, whatever it had read
\* from earlier blocks; a block id inside the table yields exactly
\* 1 << (addr & 0x1F) bytes of the file from (addr & ~0x1F) + 4 on, or the call fails
\* out of bounds when they do not lie inside the buffer.
C10_BlockResolution ==
    /\ (dsPc = "raised" /\ raisedAt = "enter" /\ blockId >= Len(offsets)) =>
            dsErr = ErrInvalidBlock
    /\ (dsPc = "raised" /\ dsErr = ErrInvalidBlock) =>
            raisedAt = "enter" /\ blockId >= Len(offsets)
    /\ dsPc = "raised" => result = NoResult
    /\ dsPc \in { "records", "return" } =>
            /\ blockId < Len(offsets)
            /\ Len(node.data) = 2 ^ (BlockAddr % 32)
            /\ node.data = SubSeq(data, BlockAddr - (BlockAddr % 32) + 5,
                                  BlockAddr - (BlockAddr % 32) + 4 + 2 ^ (BlockAddr % 32))
    /\ ( /\ dsPc = "raised" /\ raisedAt = "enter" /\ blockId < Len(offsets)
         /\ BlockAddr - (BlockAddr % 32) + 4 + 2 ^ (BlockAddr % 32) > Len(data) ) =>
            dsErr = ErrOutOfBounds

\* C10 witness: the invalid id was reached through a forward pointer, after the
\* records of an earlier block had been read.
C10_Witness ==
    /\ dsPc = "raised" /\ dsErr = ErrInvalidBlock
    /\ HoldsLayoutTable
    /\ rootId < Len(offsets) /\ blockId # rootId
    /\ LCount(layout, rootId) > 0

\* C6: a sequential read of n bytes at position p fails with the parsing error exactly
\* when p + n exceeds the buffer length, a read at an absolute offset o exactly when
\* o + n does; a read that does not fail returns exactly the n bytes asked for, and
\* after a successful sequential read the position is within the buffer.
C6_CursorBounds ==
    /\ last.op = "read" =>
          /\ (last.err = ErrOutOfBounds) <=> (last.before + last.n > Len(cur.data))
          /\ last.err \in { NoError, ErrOutOfBounds }
          /\ last.err = NoError =>
                /\ Len(last.val) = last.n
                /\ \A i \in 1..last.n : last.val[i] = cur.data[last.before + i]
                /\ cur.pos <= Len(cur.data)
    /\ last.op = "peek" =>
          /\ (last.err = ErrOutOfBounds) <=> (last.offset + last.n > Len(cur.data))
          /\ last.err \in { NoError, ErrOutOfBounds }
          /\ last.err = NoError =>
                /\ Len(last.val) = last.n
                /\ \A i \in 1..last.n : last.val[i] = cur.data[last.offset + i]

\* C6 witness: after earlier operations, a sequential read took the last bytes of
\* the buffer.
C6_Witness ==
    /\ last.op = "read" /\ last.err = NoError
    /\ last.n > 0 /\ last.before > 0
    /\ cur.pos = Len(cur.data)

\* The step is a read_filename that returned.
ReadsRecord == dsPc = "records" /\ dsPc' = "records" /\ remaining' = remaining - 1

\* The 4 bytes of the block at offset p, as a 32-bit word.
NodeWord(p) == UnpackU32(Slice(node.data, p, p + 4))

\* The trailing bytes of the record at offset p whose name has len units.
Trailing(p, len) ==
    LET tag == Slice(node.data, p + 4 + 2 * len + 4, p + 4 + 2 * len + 8)
    IN  CASE tag = StrBool -> 1
          [] tag = StrLong -> 4
          [] tag = StrBlob -> 4 + NodeWord(p + 4 + 2 * len + 8)
          [] OTHER -> 0

\* C16: decoding a filename record moves the position of the block by exactly
\* 4 + 2*len + 4 + 4 + t, len being the record's character count and t given by its
\* type tag: 1 for bool, 4 for long, 4 + b for blob, 0 for any other tag; the
\* buffer of the block is left as it is.
C16_RecordAdvance ==
    [][ ReadsRecord =>
          /\ node'.pos = node.pos + 4 + 2 * NodeWord(node.pos) + 4 + 4
                         + Trailing(node.pos, NodeWord(node.pos))
          /\ node'.data = node.data
      ]_allVars

\* C16 witness: the second record of a block was decoded after a first one of
\* type blob: the position stands right after the second record's bytes.
C16_Witness ==
    /\ dsPc = "records"
    /\ HoldsLayoutTable /\ blockId < MaxBlocks
    /\ LCount(layout, blockId) = 2 /\ remaining = 0
    /\ LKind(layout, blockId, 1) = 2
    /\ node.pos = 8 + Len(LRecordBytes(layout, blockId, 1))
                    + Len(LRecordBytes(layout, blockId, 2))

\* C17: the position of a DataBlock changes only through a sequential read that
\* succeeds or a skip, and then by exactly n; a read at an absolute offset, which
\* is how the root table and the blocks are carved out of the parent cursor, never
\* changes it; a read that fails leaves position and buffer as they were; no
\* operation changes the buffer.
C17_CursorFrame ==
    [][ /\ cur'.data = cur.data
        /\ cur'.pos # cur.pos =>
              /\ last'.op \in {"read", "skip"}
              /\ last'.err = NoError
        /\ (last'.op \in {"read", "skip"} /\ last'.err = NoError) =>
              cur'.pos = cur.pos + last'.n
        /\ last'.op = "peek" => cur'.pos = cur.pos
        /\ last'.err # NoError => cur' = cur
      ]_allVars

\* C17 witness: after the position had moved, a read at another absolute offset
\* returned bytes and the position stayed.
C17_Witness ==
    /\ last.op = "peek" /\ last.err = NoError
    /\ last.n > 0 /\ last.before > 0 /\ last.offset # last.before
    /\ cur.pos = last.before

(***************************************************************************)
(* Claims about the staging-index decoder (SpecGit)                        *)
(***************************************************************************)

LastRecord == out[Len(out)]

HasExtension == \E i \in DOMAIN out : out[i].kind = "extension"

\* C3: no extension read consumes any of the final 20 bytes of the file: after each
\* extension record the read position is at most len - 20, and when extensions were
\* read the checksum record holds the full last 20 bytes of the file.
C3_ExtensionsLeaveChecksum ==
    /\ (gitPc = "body" /\ out # << >> /\ LastRecord.kind = "extension")
          => fpos <= Len(f) - ChecksumSize
    /\ (gitPc \in {"checksum", "done"} /\ HasExtension)
          => LastRecord.sha1 = HexDigits(Slice(f, Len(f) - ChecksumSize, Len(f)))

\* What a record says, without the fields that only copy a word of the file.
GBrief(r) ==
    CASE r.kind = "header" -> << "header", r.signature, r.version, r.entries >>
      [] r.kind = "entry" -> << "entry", r.entry, r.size, r.name >>
      [] r.kind = "extension" -> << "extension", r.signature, r.size, r.data >>
      [] OTHER -> << "checksum", r.sha1 >>

\* The records a well-formed laid-out file holds, in file order.
GExpected(g) ==
    << << "header", StrDIRC, g.version, g.n >> >>
    \o [ j \in 1..g.n |-> << "entry", j, 10 * j + 10, GName(g, j) >> ]
    \o [ j \in 1..g.m |->
           << "extension", StrTREE, GExtSize(g, j), DecodeUtf8Replace(GExtPayload(g, j)) >> ]
    \o << << "checksum", HexDigits(GChecksum) >> >>

\* The file of the scenario: DIRC, version 2, no entries, 20 trailing bytes.
ScenarioFile == f = StrDIRC \o PackU32(2) \o PackU32(0) \o GChecksum

\* C4: the records come in this order and no other: the header record first and
\* only first, then the entry records numbered 1..entries, then the extension
\* records, then one checksum record, last, after which the sequence ends; a
\* well-formed file yields its records in file order; the file with signature
\* DIRC, version 2, no entries and 20 trailing bytes decodes without error and
\* yields two records, header and checksum.
C4_RecordOrder ==
    /\ \A i \in DOMAIN out : (out[i].kind = "header") <=> (i = 1)
    /\ \A i \in DOMAIN out :
          (out[i].kind = "entry") <=> (2 <= i /\ i <= index.entries + 1)
    /\ \A i \in DOMAIN out : out[i].kind = "entry" => out[i].entry = i - 1
    /\ \A i \in DOMAIN out : out[i].kind = "checksum" => i = Len(out)
    /\ (gitPc \in {"checksum", "done"})
          <=> (out # << >> /\ LastRecord.kind = "checksum")
    /\ gitPc = "done" => Len(out) >= index.entries + 2
    /\ (gitPc = "done" /\ GWellFormed(gitLayout))
          => [ i \in DOMAIN out |-> GBrief(out[i]) ] = GExpected(gitLayout)
    /\ ScenarioFile =>
          /\ gitErr = NoError
          /\ gitPc = "done" =>
                /\ Len(out) = 2
                /\ out[1].kind = "header" /\ out[2].kind = "checksum"

\* C4 witness: a file with two entries and two extensions was decoded to its end.
C4_Witness ==
    /\ gitPc = "done" /\ gitErr = NoError
    /\ GWellFormed(gitLayout)
    /\ index.entries = 2
    /\ Len(out) = 6
    /\ out[3].kind = "entry" /\ out[5].kind = "extension"

\* C5: the byte-by-byte name read stops at the end of the input: the loop of
\* _read_name never goes on after a read that returned no byte.
C5_NameReadStopsAtEndOfInput ==
    gitPc = "read_name" => \A i \in DOMAIN nameList : nameList[i] # << >>

\* The typed errors of the staging-index decoder: gin.ParsingError with the message
\* of the check that failed.
ErrBadSignature == "ParsingError: Not a Git index file."
ErrUnsupportedVersion == "ParsingError: Unsupported version"

FileSignature == SubSeq(f, 1, 4)

FileVersion == UnpackU32(SubSeq(f, 5, 8))

\* C11: a file whose signature is not DIRC ends the decoding with the bad-signature
\* parsing error, a file with signature DIRC and a version outside {2, 3} with the
\* unsupported-version parsing error; in both cases no record is yielded and the
\* error is one the caller of the decoder can handle as a parsing error.
C11_HeaderErrorsAreParsingErrors ==
    /\ (gitPc # "start" /\ Len(f) >= 4 /\ FileSignature # StrDIRC) =>
          /\ gitPc = "raised" /\ out = << >>
          /\ gitErr = ErrBadSignature
    /\ (gitPc # "start" /\ Len(f) >= 8 /\ FileSignature = StrDIRC
          /\ FileVersion \notin {2, 3}) =>
          /\ gitPc = "raised" /\ out = << >>
          /\ gitErr = ErrUnsupportedVersion

EntryFixedSize == 10 * 4 + 20 + 2

\* The step yields an entry record.
YieldsEntry ==
    /\ Len(out') = Len(out) + 1
    /\ out'[Len(out')].kind = "entry"

NameLength(r) == r.flags % (NameLenMask + 1)

\* C13: an entry whose flags give a name length L < 0xFFF has its name read as
\* exactly the L bytes after the flags, and the read position moves by exactly L;
\* with L = 0xFFF the name is the bytes before the first zero byte, which is
\* consumed, and the next read starts right after it.
C13_EntryNameBytes ==
    [][ /\ (gitPc = "body" /\ YieldsEntry) =>
              LET L == NameLength(out'[Len(out')])
                  raw == Slice(f, fpos + EntryFixedSize, fpos + EntryFixedSize + L)
              IN  /\ L < NameLenMask
                  /\ Len(raw) = L
                  /\ fpos' = fpos + EntryFixedSize + L
                  /\ out'[Len(out')].name = DecodeUtf8Replace(raw)
        /\ (gitPc = "read_name" /\ YieldsEntry) =>
              LET start == fpos - Len(nameList)
                  raw == Slice(f, start, fpos)
              IN  /\ NameLength(out'[Len(out')]) = NameLenMask
                  /\ \A i \in DOMAIN raw : raw[i] # 0
                  /\ fpos < Len(f) /\ f[fpos + 1] = 0
                  /\ fpos' = fpos + 1
                  /\ out'[Len(out')].name = DecodeUtf8Replace(raw)
        /\ (gitPc = "read_name" /\ gitPc' = "read_name") =>
              /\ fpos < Len(f)
              /\ fpos' = fpos + 1
      ]_allVars

(***************************************************************************)
(* Claims about the crawler (SpecDumper)                                   *)
(***************************************************************************)

\* The loop is done with url: it was taken from the queue and its iteration ended.
Handled(url) ==
    /\ url \in processed_urls
    /\ ~(base_url = url /\ dumperPc \in {"fetch", "parse"})

\* Fetching or decoding the .DS_Store of url fails.
FetchOrDecodeFails(url) ==
    \/ fetch(url).status # StatusOk
    \/ Falsy(fetch(url))
    \/ DS_Store(fetch(url).content).err # NoError
    \/ traverse_root(DS_Store(fetch(url).content)).err # NoError

InSeq(x, seq) == \E i \in DOMAIN seq : seq[i] = x

\* C12: a URL whose fetch or decode failed is recorded in failed_urls and has no
\* target added for it; the failure does not end the loop: when parse_loop returns
\* the queue is empty and every URL that was put in it has been processed.
C12_FailedDecodeNotFatal ==
    /\ \A url \in processed_urls :
          (Handled(url) /\ FetchOrDecodeFails(url)) =>
              /\ InSeq(url, failed_urls)
              /\ \A i \in DOMAIN targets :
                    SubSeq(targets[i][1], 1, Len(targets[i][1]) - 1) # url
    /\ dumperPc = "returned" =>
          /\ url_queue = << >>
          /\ enqueued \subseteq processed_urls
          /\ \A url \in enqueued : Handled(url)

\* C12 witness: the loop returned after the store of one URL had failed in
\* construction and the URLs queued behind it were processed all the same.
C12_Witness ==
    /\ dumperPc = "returned"
    /\ Len(fetched) = 3
    /\ fetch(fetched[1]).store = 3
    /\ DS_Store(fetch(fetched[1]).content).err = ErrInvalidMagic
    /\ fetch(fetched[2]).status # StatusOk
    /\ fetch(fetched[3]).store = 1
    /\ failed_urls = fetched

\* The store fetched for url is well-formed: its DSDB chain ends and holds names.
WellFormedStore(url) ==
    /\ fetch(url).status = StatusOk
    /\ fetch(url).store \in {1, 2}
    /\ LWellFormed(StoreLayout(fetch(url).store), LToc(StoreLayout(fetch(url).store))[StrDSDB])

\* The names the store fetched for url holds under DSDB.
StoreNames(url) ==
    LET l == StoreLayout(fetch(url).store)
        names == LChainNames(l, LToc(l)[StrDSDB])
    IN  { names[i] : i \in DOMAIN names }

TargetOf(url, name) == << new_url_of(url, name), fullname_of(new_url_of(url, name)) >>

\* C14: for every processed URL whose fetched buffer is a well-formed store, the
\* targets hold exactly one target (base/name, path) for each distinct name of the
\* store, none for any other name, and base/name was put in the queue unless it had
\* been processed.
C14_TargetsFromStoreNames ==
    \A url \in processed_urls :
        (Handled(url) /\ WellFormedStore(url)) =>
            /\ \A name \in StoreNames(url) :
                  /\ Cardinality({ i \in DOMAIN targets :
                                     targets[i] = TargetOf(url, name) }) = 1
                  /\ new_url_of(url, name) \in enqueued \cup processed_urls
            /\ \A i \in DOMAIN targets :
                  SubSeq(targets[i][1], 1, Len(targets[i][1]) - 1) = url =>
                      \E name \in StoreNames(url) : targets[i] = TargetOf(url, name)

(***************************************************************************)
(* Claims about the address words (SpecAddr)                               *)
(***************************************************************************)

RECURSIVE BitAnd(_, _)
BitAnd(x, y) ==
    IF x = 0 \/ y = 0 THEN 0
    ELSE (IF x % 2 = 1 /\ y % 2 = 1 THEN 1 ELSE 0) + 2 * BitAnd(x \div 2, y \div 2)

RECURSIVE BitOr(_, _)
BitOr(x, y) ==
    IF x = 0 THEN y
    ELSE IF y = 0 THEN x
    ELSE (IF x % 2 = 1 \/ y % 2 = 1 THEN 1 ELSE 0) + 2 * BitOr(x \div 2, y \div 2)

\* log2 of a power of two; -1 for any other number.
Log2(n) == IF \E k \in 0..30 : 2 ^ k = n THEN CHOOSE k \in 0..30 : 2 ^ k = n ELSE -1

\* C15: an address word a is resolved to size = 1 << (a & 0x1F) and
\* offset = a & ~0x1F; the low 5 bits of the offset are 0, log2(size) is in 0..31,
\* and offset | log2(size) is a again.
C15_AddressRoundTrip ==
    addrPc = "resolved" =>
        /\ resolved.size = 2 ^ BitAnd(addr, 31)
        /\ resolved.offset = BitAnd(addr, 2147483647 - 31)
        /\ BitAnd(resolved.offset, 31) = 0
        /\ Log2(resolved.size) \in 0..31
        /\ BitOr(resolved.offset, Log2(resolved.size)) = addr

\* C15 witness: a word with a nonzero offset and nonzero low bits was resolved.
C15_Witness ==
    /\ addrPc = "resolved"
    /\ resolved.offset = 2147483647 - 31
    /\ resolved.size = 2 ^ 30


\* A sequence without a repeated element.
NoRepeat(q) == \A i, j \in DOMAIN q : q[i] = q[j] => i = j

\* C18: parse_loop fetches and decodes the store of each base URL at most once
\* and appends each URL to failed_urls at most once, also when the URL was put
\* in the queue several times; when parse_loop returns the queue is empty and
\* every URL that was ever put in the queue is in processed_urls.
C18_EachUrlOnce ==
    /\ NoRepeat(fetched)
    /\ NoRepeat(failed_urls)
    /\ dumperPc = "parse" =>
          /\ fetched # << >>
          /\ fetched[Len(fetched)] = base_url
          /\ ~ InSeq(base_url, failed_urls)
    /\ dumperPc = "returned" =>
          /\ url_queue = << >>
          /\ enqueued \subseteq processed_urls

\* C18 witness: parse_loop returned after the last URL it took from the queue
\* was one already fetched earlier, with another URL fetched in between.
C18_Witness ==
    /\ dumperPc = "returned"
    /\ Len(fetched) = 2
    /\ base_url = fetched[1]
    /\ base_url # fetched[2]
    /\ enqueued = { fetched[1], fetched[2] }

====
